---- MODULE Spec2Model ----
(***************************************************************************)
(* Model of the word-fill sentence generation core of server/routers.ts    *)
(* (src/unnamed/part_000): generateSentenceForWord, callDeepSeekAPI,       *)
(* extractSentence, generateFallbackSentence and the wordFill.generateBatch*)
(* mutation.                                                               *)
(*                                                                         *)
(* A text is a sequence of one-character strings.  Message strings of the  *)
(* source that are not ASCII are written in English, with the source line  *)
(* named beside each.                                                      *)
(***************************************************************************)
EXTENDS Integers, Sequences, FiniteSets, TLC

VARIABLES
    apiKey,      \* DEEPSEEK_API_KEY is a non-empty string (part_000:8)
    words,       \* the words of the request, in request order
    difficulty,  \* the difficulty of the request ("undefined": argument omitted)
    pc,          \* pc[i]: where the call generateSentenceForWord(words[i]) stands
    http,        \* http[i]: the request task i sent and the status of its response
    results,     \* results[i]: what generateSentenceForWord(words[i]) resolved with
    origin,      \* origin[i]: the function that returned results[i].sentence
    attempt,     \* attempt[i]: how the try block of task i ended (history)
    overtaken,   \* some task settled while a task before it was still pending (history)
    fetchCount,  \* fetchCount[i]: calls of fetch() made for task i
    batch,       \* what the generateBatch mutation settled with
    call,        \* a direct call of one of the pure functions
    ret          \* what that call returned or threw

vars ==
    <<apiKey, words, difficulty, pc, http, results, origin, attempt, overtaken,
      fetchCount, batch, call, ret>>

----------------------------------------------------------------------------
(* Bounds of the model. *)

\* Pieces in a raw text handed to extractSentence directly.
MaxPieces == 3
\* Pieces in the content of a completion received by generateSentenceForWord.
MaxContentPieces == 3
\* Words in one generateBatch request.
MaxBatch == 3

----------------------------------------------------------------------------
(* Characters and strings, as JavaScript treats them. *)

LowerLetters == {"a", "b", "z"}
UpperLetters == {"A", "B", "Z"}

\* \w of a RegExp without the u flag: [A-Za-z0-9_].
IsWordChar(c) == c \in LowerLetters \cup UpperLetters \cup {"_"}

\* \s of a RegExp, and what String.prototype.trim removes.
IsSpace(c) == c \in {" ", "\t", "\n", "\r"}

ToLowerChar(c) ==
    CASE c = "A" -> "a" [] c = "B" -> "b" [] c = "Z" -> "z" [] OTHER -> c

ToUpperChar(c) ==
    CASE c = "a" -> "A" [] c = "b" -> "B" [] c = "z" -> "Z" [] OTHER -> c

\* String.prototype.toLowerCase
ToLowerCase(s) == [i \in 1..Len(s) |-> ToLowerChar(s[i])]

\* String.prototype.trim
Trim(s) ==
    LET keep == {i \in 1..Len(s) : ~IsSpace(s[i])}
    IN  IF keep = {} THEN <<>>
        ELSE LET lo == CHOOSE i \in keep : \A j \in keep : i <= j
                 hi == CHOOSE i \in keep : \A j \in keep : j <= i
             IN  SubSeq(s, lo, hi)

\* String.prototype.startsWith / endsWith with a one-character argument
StartsWith(s, c) == Len(s) >= 1 /\ s[1] = c
EndsWith(s, c) == Len(s) >= 1 /\ s[Len(s)] = c

\* s.slice(1, -1)
SliceInner(s) == SubSeq(s, 2, Len(s) - 1)

\* s.slice(0, -1)
SliceButLast(s) == SubSeq(s, 1, Len(s) - 1)

\* String.prototype.includes
Includes(s, sub) ==
    \E i \in 1..(Len(s) - Len(sub) + 1) : SubSeq(s, i, i + Len(sub) - 1) = sub

\* The blank placeholder '___'.
Marker == <<"_", "_", "_">>

\* s.split(' '): the pieces between single spaces; "" splits into [""].
RECURSIVE SplitSpace(_)
SplitSpace(s) ==
    LET sp == {i \in 1..Len(s) : s[i] = " "}
    IN  IF sp = {} THEN <<s>>
        ELSE LET k == CHOOSE i \in sp : \A j \in sp : i <= j
             IN  <<SubSeq(s, 1, k - 1)>> \o SplitSpace(SubSeq(s, k + 1, Len(s)))

\* words.join(' ')
RECURSIVE JoinSpace(_)
JoinSpace(ws) ==
    IF Len(ws) = 0 THEN <<>>
    ELSE IF Len(ws) = 1 THEN ws[1]
    ELSE ws[1] \o <<" ">> \o JoinSpace(Tail(ws))

\* words.splice(pos, 0, item), pos counted from 0
SpliceInsert(ws, pos, item) ==
    SubSeq(ws, 1, pos) \o <<item>> \o SubSeq(ws, pos + 1, Len(ws))

\* /[.!?]$/.test(s)
EndsWithPunctuation(s) == Len(s) >= 1 /\ s[Len(s)] \in {".", "!", "?"}

\* s.replace(/\s+/g, ' ')
RECURSIVE CollapseWhitespace(_)
CollapseWhitespace(s) ==
    IF Len(s) = 0 THEN <<>>
    ELSE IF IsSpace(s[1])
         THEN LET rest == {i \in 1..Len(s) : ~IsSpace(s[i])}
              IN  IF rest = {} THEN <<" ">>
                  ELSE LET k == CHOOSE i \in rest : \A j \in rest : i <= j
                       IN  <<" ">> \o CollapseWhitespace(SubSeq(s, k, Len(s)))
         ELSE <<s[1]>> \o CollapseWhitespace(Tail(s))

----------------------------------------------------------------------------
(* new RegExp(source, 'i'): the part of the RegExp grammar that the        *)
(* pattern `\b<word>\b` can use when the word is written in PatternChars.  *)

\* The characters a word of the model is written in.  There is no ")" and no
\* "]" among them, so a "(" or a "[" that reaches the pattern is never closed.
PatternChars == LowerLetters \cup UpperLetters \cup {".", "+", "*", "?", "(", "["}

\* The character class of the escaping expression of extractSentence,
\* /[.*+?^${}()|[\\]\\\\]/g: the class ends at the first "]", so the
\* expression is this class followed by two backslashes and a "]".
EscapeClass == {".", "*", "+", "?", "^", "$", "{", "}", "(", ")", "|", "[", "\\"}

\* word.replace(/[.*+?^${}()|[\\]\\\\]/g, '\\$&'): every match of the
\* expression (a class character, two backslashes, a "]") gets a backslash
\* in front of it; all other text is copied.
RECURSIVE EscapeFrom(_, _)
EscapeFrom(w, i) ==
    IF i > Len(w) THEN <<>>
    ELSE IF /\ i + 3 <= Len(w)
            /\ w[i] \in EscapeClass
            /\ w[i + 1] = "\\"
            /\ w[i + 2] = "\\"
            /\ w[i + 3] = "]"
         THEN <<"\\">> \o SubSeq(w, i, i + 3) \o EscapeFrom(w, i + 4)
         ELSE <<w[i]>> \o EscapeFrom(w, i + 1)

EscapeWord(w) == EscapeFrom(w, 1)

\* An atom of a compiled pattern: one character (or any character), repeated.
Atom(kind, ch) == [kind |-> kind, ch |-> ch, min |-> 1, many |-> FALSE, greedy |-> TRUE]

Quantified(a, q) ==
    [a EXCEPT !.min = IF q = "+" THEN 1 ELSE 0, !.many = (q # "?")]

SyntaxError(what) ==
    [ok |-> FALSE, error |-> "Invalid regular expression: " \o what]

\* The pattern between the two \b, parsed from position i.  `after` is what
\* stands before position i: "assertion" (the leading \b, or a lazy
\* quantifier), "atom" or "quantifier".
RECURSIVE ParsePattern(_, _, _, _)
ParsePattern(src, i, atoms, after) ==
    IF i > Len(src) THEN [ok |-> TRUE, atoms |-> atoms]
    ELSE LET c == src[i] IN
         CASE c \in {"+", "*", "?"} ->
                IF after = "atom"
                THEN ParsePattern(src, i + 1,
                         [atoms EXCEPT ![Len(atoms)] = Quantified(@, c)], "quantifier")
                ELSE IF after = "quantifier" /\ c = "?"
                THEN ParsePattern(src, i + 1,
                         [atoms EXCEPT ![Len(atoms)].greedy = FALSE], "assertion")
                ELSE SyntaxError("Nothing to repeat")
           [] c = "(" -> SyntaxError("Unterminated group")
           [] c = "[" -> SyntaxError("Unterminated character class")
           [] c = "\\" ->
                IF i = Len(src) THEN SyntaxError("\\ at end of pattern")
                ELSE ParsePattern(src, i + 2, Append(atoms, Atom("char", src[i + 1])), "atom")
           [] c = "." -> ParsePattern(src, i + 1, Append(atoms, Atom("any", c)), "atom")
           [] OTHER -> ParsePattern(src, i + 1, Append(atoms, Atom("char", c)), "atom")

\* new RegExp(`\\b${escaped}\\b`, 'i')
NewRegExp(escaped) == ParsePattern(escaped, 1, <<>>, "assertion")

\* \b at position pos of s (between s[pos-1] and s[pos])
WordBoundaryAt(s, pos) ==
    LET before == pos >= 2 /\ pos - 1 <= Len(s) /\ IsWordChar(s[pos - 1])
        here   == pos >= 1 /\ pos <= Len(s) /\ IsWordChar(s[pos])
    IN  before # here

\* One character against one atom, under the i flag (both sides canonicalized
\* by toUpperCase); "." matches anything but a line terminator.
AtomMatches(a, c) ==
    IF a.kind = "any" THEN c \notin {"\n", "\r"}
    ELSE ToUpperChar(a.ch) = ToUpperChar(c)

\* How many characters from pos on atom a can take.
RECURSIVE Run(_, _, _)
Run(a, s, pos) ==
    IF pos > Len(s) \/ ~AtomMatches(a, s[pos]) THEN 0
    ELSE IF ~a.many THEN 1
    ELSE 1 + Run(a, s, pos + 1)

\* The backtracking matcher: atoms k.. and the closing \b against s from pos.
\* The position after the match, or 0 when there is none.  TryCounts walks the
\* repetition counts of atom k in the order the engine tries them.
RECURSIVE MatchHere(_, _, _, _)
RECURSIVE TryCounts(_, _, _, _, _, _)
TryCounts(atoms, k, s, pos, n, last) ==
    LET r == MatchHere(atoms, k + 1, s, pos + n)
    IN  IF r # 0 THEN r
        ELSE IF n = last THEN 0
        ELSE TryCounts(atoms, k, s, pos, IF n < last THEN n + 1 ELSE n - 1, last)

MatchHere(atoms, k, s, pos) ==
    IF k > Len(atoms) THEN (IF WordBoundaryAt(s, pos) THEN pos ELSE 0)
    ELSE LET a == atoms[k]
             most == Run(a, s, pos)
         IN  IF most < a.min THEN 0
             ELSE IF a.greedy THEN TryCounts(atoms, k, s, pos, most, a.min)
             ELSE TryCounts(atoms, k, s, pos, a.min, most)

\* The first match of the pattern in s: <<start, end>> (end exclusive), or <<>>.
FirstMatch(atoms, s) ==
    LET starts == {p \in 1..(Len(s) + 1) :
                      WordBoundaryAt(s, p) /\ MatchHere(atoms, 1, s, p) # 0}
    IN  IF starts = {} THEN <<>>
        ELSE LET p == CHOOSE q \in starts : \A r \in starts : q <= r
             IN  <<p, MatchHere(atoms, 1, s, p)>>

\* pattern.test(s)
RegExpTest(atoms, s) == FirstMatch(atoms, s) # <<>>

\* s.replace(pattern, replacement): the first match only (no g flag)
ReplaceFirst(atoms, s, replacement) ==
    LET m == FirstMatch(atoms, s)
    IN  IF m = <<>> THEN s
        ELSE SubSeq(s, 1, m[1] - 1) \o replacement \o SubSeq(s, m[2], Len(s))

----------------------------------------------------------------------------
(* extractSentence (part_000:190-228) *)

Returned(v) == [threw |-> FALSE, value |-> v]
Threw(isError, message) == [threw |-> TRUE, isError |-> isError, message |-> message]

\* Lines 194-197: one layer of matching quotes is removed.
StripQuotes(s) ==
    IF \/ StartsWith(s, "\"") /\ EndsWith(s, "\"")
       \/ StartsWith(s, "'") /\ EndsWith(s, "'")
    THEN SliceInner(s)
    ELSE s

\* Lines 208-215: no match of the word.
InsertBlank(sentence) ==
    LET ws == SplitSpace(sentence)
    IN  IF Len(ws) > 3
        THEN JoinSpace(SpliceInsert(ws, Len(ws) \div 2, Marker))
        ELSE SliceButLast(sentence) \o <<" ">> \o Marker \o <<".">>

\* Finish without line 225: runs of whitespace are kept.
FinishUncollapsed(sentence) ==
    Trim(IF EndsWithPunctuation(sentence) THEN sentence ELSE sentence \o <<".">>)

\* Lines 219-227: terminal punctuation, then whitespace.
Finish(sentence) ==
    Trim(CollapseWhitespace(
        IF EndsWithPunctuation(sentence) THEN sentence ELSE sentence \o <<".">>))

extractSentence(resp, word) ==
    LET sentence == StripQuotes(Trim(resp))
    IN  IF Includes(sentence, Marker) THEN Returned(Finish(sentence))
        ELSE LET pattern == NewRegExp(EscapeWord(word))
             IN  IF ~pattern.ok THEN Threw(TRUE, pattern.error)
                 ELSE IF RegExpTest(pattern.atoms, ToLowerCase(sentence))
                 THEN Returned(Finish(ReplaceFirst(pattern.atoms, sentence, Marker)))
                 ELSE Returned(Finish(InsertBlank(sentence)))

----------------------------------------------------------------------------
(* generateFallbackSentence (part_000:230-243) *)

\* The templates of generateFallbackSentence (part_000:231-240), in order.
templates ==
    <<
    \* We need to ___ carefully before making a decision.
    <<"W", "e", " ", "n", "e", "e", "d", " ", "t", "o", " ", "_", "_", "_",
      " ", "c", "a", "r", "e", "f", "u", "l", "l", "y", " ", "b", "e", "f",
      "o", "r", "e", " ", "m", "a", "k", "i", "n", "g", " ", "a", " ", "d",
      "e", "c", "i", "s", "i", "o", "n", ".">>,
    \* She said that ___ is essential for personal growth.
    <<"S", "h", "e", " ", "s", "a", "i", "d", " ", "t", "h", "a", "t", " ",
      "_", "_", "_", " ", "i", "s", " ", "e", "s", "s", "e", "n", "t", "i",
      "a", "l", " ", "f", "o", "r", " ", "p", "e", "r", "s", "o", "n", "a",
      "l", " ", "g", "r", "o", "w", "t", "h", ".">>,
    \* In daily life, people often ___ to express their feelings.
    <<"I", "n", " ", "d", "a", "i", "l", "y", " ", "l", "i", "f", "e", ",",
      " ", "p", "e", "o", "p", "l", "e", " ", "o", "f", "t", "e", "n", " ",
      "_", "_", "_", " ", "t", "o", " ", "e", "x", "p", "r", "e", "s", "s",
      " ", "t", "h", "e", "i", "r", " ", "f", "e", "e", "l", "i", "n", "g",
      "s", ".">>,
    \* The teacher told us that ___ can help improve our skills.
    <<"T", "h", "e", " ", "t", "e", "a", "c", "h", "e", "r", " ", "t", "o",
      "l", "d", " ", "u", "s", " ", "t", "h", "a", "t", " ", "_", "_", "_",
      " ", "c", "a", "n", " ", "h", "e", "l", "p", " ", "i", "m", "p", "r",
      "o", "v", "e", " ", "o", "u", "r", " ", "s", "k", "i", "l", "l", "s",
      ".">>,
    \* When facing challenges, we should ___ with courage.
    <<"W", "h", "e", "n", " ", "f", "a", "c", "i", "n", "g", " ", "c", "h",
      "a", "l", "l", "e", "n", "g", "e", "s", ",", " ", "w", "e", " ", "s",
      "h", "o", "u", "l", "d", " ", "_", "_", "_", " ", "w", "i", "t", "h",
      " ", "c", "o", "u", "r", "a", "g", "e", ".">>,
    \* He spent a lot of time learning how to ___ properly.
    <<"H", "e", " ", "s", "p", "e", "n", "t", " ", "a", " ", "l", "o", "t",
      " ", "o", "f", " ", "t", "i", "m", "e", " ", "l", "e", "a", "r", "n",
      "i", "n", "g", " ", "h", "o", "w", " ", "t", "o", " ", "_", "_", "_",
      " ", "p", "r", "o", "p", "e", "r", "l", "y", ".">>,
    \* This experience taught me the importance of ___.
    <<"T", "h", "i", "s", " ", "e", "x", "p", "e", "r", "i", "e", "n", "c",
      "e", " ", "t", "a", "u", "g", "h", "t", " ", "m", "e", " ", "t", "h",
      "e", " ", "i", "m", "p", "o", "r", "t", "a", "n", "c", "e", " ", "o",
      "f", " ", "_", "_", "_", ".">>,
    \* Many people believe that ___ brings happiness and success.
    <<"M", "a", "n", "y", " ", "p", "e", "o", "p", "l", "e", " ", "b", "e",
      "l", "i", "e", "v", "e", " ", "t", "h", "a", "t", " ", "_", "_", "_",
      " ", "b", "r", "i", "n", "g", "s", " ", "h", "a", "p", "p", "i", "n",
      "e", "s", "s", " ", "a", "n", "d", " ", "s", "u", "c", "c", "e", "s",
      "s", ".">>
    >>

\* Math.floor(Math.random() * templates.length)
TemplatePicks == 0..(Len(templates) - 1)

\* generateFallbackSentence writing the word into the blank of the template.
generateFallbackSentenceFilled(word, pick) ==
    LET t == templates[pick + 1]
        i == CHOOSE j \in 1..(Len(t) - 2) : SubSeq(t, j, j + 2) = <<"_", "_", "_">>
    IN  SubSeq(t, 1, i - 1) \o word \o SubSeq(t, i + 3, Len(t))

\* The word is not read; pick is the random index drawn.
generateFallbackSentence(word, pick) == templates[pick + 1]

----------------------------------------------------------------------------
(* createPrompt (part_000:62-124) *)

\* The difficulty argument left out of a call of generateSentenceForWord.
Omitted == "<omitted>"

\* difficultyInstructions[difficulty] || difficultyInstructions.medium
\* (lines 87-93), each instruction named by its key.
InstructionFor(d) == IF d \in {"easy", "medium", "hard"} THEN d ELSE "medium"

\* The prompt names the word and the instruction; the style, context and
\* variation drawn at random (lines 84-85, 103) change its wording only.
createPrompt(word, d) == [word |-> word, instruction |-> InstructionFor(d)]

----------------------------------------------------------------------------
(* callDeepSeekAPI (part_000:126-188) *)

\* Status codes of the responses the endpoint is let to give.
Statuses == {200, 401, 403, 429, 500, 503, 404}

\* response.ok
IsOk(status) == status >= 200 /\ status <= 299

\* JSON.stringify(errorData) of a failed response: "{}" when the body is not
\* JSON (line 163), its text otherwise.
ErrorBodies == {"{}", "{\"error\":\"bad request\"}"}

\* The pieces a completion's text is made of.
Pieces ==
    { <<"a">>, <<"A">>, <<"b", " ", "b">>, <<" ">>, Marker, <<".">>, <<"!">>, <<"\"">> }

RECURSIVE TextsOf(_)
TextsOf(n) ==
    IF n = 0 THEN {<<>>}
    ELSE LET shorter == TextsOf(n - 1)
         IN  shorter \cup {t \o q : t \in shorter, q \in Pieces}

Body(kind, content) == [kind |-> kind, content |-> content]

\* What a 2xx response can carry: text that is not JSON, JSON without
\* choices, with an empty choices list, with a first choice that has no
\* message, or with a first choice whose message has a content.
BodiesOf(texts) ==
    { Body(k, <<>>) : k \in {"malformed", "noChoices", "emptyChoices", "noMessage"} }
        \cup { Body("content", t) : t \in texts }

\* What a rejected fetch() rejects with: the TypeError of the platform's
\* fetch, or a value that is no Error (a stubbed fetch).
FetchRejections ==
    { Threw(TRUE, "fetch failed"), Threw(FALSE, "connection reset") }

\* Lines 182-187: an Error is rethrown as it is, anything else becomes the
\* generic 'API call failed' of line 186.
ApiCatch(thrown) ==
    IF thrown.isError THEN thrown ELSE Threw(TRUE, "API call failed")

\* StatusFailure with line 170 testing for any 5xx status.
StatusFailureServerClass(status, errorData) ==
    CASE status = 401 -> Threw(TRUE, "API Key invalid/expired")
      [] status = 403 -> Threw(TRUE, "API permission insufficient")
      [] status = 429 -> Threw(TRUE, "API call rate limit exceeded")
      [] status >= 500 -> Threw(TRUE, "DeepSeek API internal server error")
      [] OTHER -> Threw(TRUE, "HTTP " \o ToString(status) \o ": " \o errorData)

\* Lines 162-174: the failure chosen by the status of a response that is not ok.
StatusFailure(status, errorData) ==
    CASE status = 401 -> Threw(TRUE, "API Key invalid/expired")        \* line 165
      [] status = 403 -> Threw(TRUE, "API permission insufficient")    \* line 167
      [] status = 429 -> Threw(TRUE, "API call rate limit exceeded")   \* line 169
      [] status = 500 -> Threw(TRUE, "DeepSeek API internal server error") \* line 171
      [] OTHER -> Threw(TRUE, "HTTP " \o ToString(status) \o ": " \o errorData)

\* Lines 176-181: the parsed body of an ok response.
ReadBody(body) ==
    CASE body.kind = "malformed" ->
            Threw(TRUE, "Unexpected token < in JSON at position 0")
      [] body.kind \in {"noChoices", "emptyChoices"} ->
            Threw(TRUE, "API response has no valid content")            \* line 178
      [] body.kind = "noMessage" ->
            Threw(TRUE, "Cannot read properties of undefined (reading 'content')")
      [] OTHER -> Returned(Trim(body.content))

\* Line 127-129: thrown before the try block, so it is not passed to ApiCatch.
NotConfigured == Threw(TRUE, "DEEPSEEK_API_KEY is not configured")

----------------------------------------------------------------------------
(* generateSentenceForWord (part_000:21-60) *)

\* A task that has no result yet, and one that has sent no request yet.
NoResult == [settled |-> FALSE]
NoPrompt == [word |-> <<>>, instruction |-> "none"]
NoHttp == [prompt |-> NoPrompt, status |-> 0]

\* difficulty: string = 'medium'
DefaultDifficulty(d) == IF d = Omitted THEN "medium" ELSE d

\* Lines 25-34: the empty word.
ValidationResult(word, d, pick) ==
    [ success |-> FALSE,
      error |-> "word length must not be less than 1 character",
      word |-> word,
      difficulty |-> d,
      fallback |-> TRUE,
      sentence |-> generateFallbackSentence(word, pick) ]

\* Mutant of SuccessResult: the difficulty is coerced to a known one, as
\* createPrompt does for its instruction, before it is echoed.
SuccessResultCoerced(word, sentence, d) ==
    [ success |-> TRUE,
      word |-> word,
      sentence |-> sentence,
      difficulty |-> InstructionFor(d),
      fallback |-> FALSE ]

\* Lines 41-47.
SuccessResult(word, sentence, d) ==
    [ success |-> TRUE,
      word |-> word,
      sentence |-> sentence,
      difficulty |-> d,
      fallback |-> FALSE ]

\* Mutant of CatchResult: the catch block leaves the fallback flag unset.
CatchResultNotFallback(word, d, thrown, pick) ==
    [ success |-> FALSE,
      word |-> word,
      sentence |-> generateFallbackSentence(word, pick),
      difficulty |-> d,
      fallback |-> FALSE,
      error |-> IF thrown.isError THEN thrown.message ELSE "Unknown error" ]

\* Lines 48-59: the catch block.
CatchResult(word, d, thrown, pick) ==
    [ success |-> FALSE,
      word |-> word,
      sentence |-> generateFallbackSentence(word, pick),
      difficulty |-> d,
      fallback |-> TRUE,
      error |-> IF thrown.isError THEN thrown.message ELSE "Unknown error" ]

\* How a try block ended, for the record: whether it ran, whether it threw,
\* and the message of what it threw.
NoAttempt == [ran |-> FALSE, threw |-> FALSE, message |-> ""]
AttemptOf(try) ==
    [ran |-> TRUE, threw |-> try.threw, message |-> IF try.threw THEN try.message ELSE ""]

\* A task that settled: the promise resolved with `result`; `from` names
\* the function whose return value is result.sentence, `att` how the try
\* block ended.
Resolved(result, from, att) ==
    [pc |-> "done", result |-> result, origin |-> from, attempt |-> att]

\* Lines 37-39, from the point where callDeepSeekAPI has settled with `api`:
\* what the try block ends with, the sentence or what was thrown in it.
TryBlock(word, api) ==
    IF api.threw THEN api ELSE extractSentence(api.value, word)

\* Mutant of AfterTry: no catch block, what the try block throws rejects the
\* promise of the call.
AfterTryNoCatch(word, d, try, pick) ==
    IF try.threw
    THEN [ pc |-> "rejected", result |-> NoResult, origin |-> "none",
           attempt |-> AttemptOf(try) ]
    ELSE Resolved(SuccessResult(word, try.value, d), "extractSentence", AttemptOf(try))

\* Lines 41-59: the result returned after the try block ended with `try`.
\* pick is drawn only in the catch block.
AfterTry(word, d, try, pick) ==
    IF try.threw
    THEN Resolved(CatchResult(word, d, try, pick), "generateFallbackSentence",
                  AttemptOf(try))
    ELSE Resolved(SuccessResult(word, try.value, d), "extractSentence", AttemptOf(try))

\* The random draws a call makes after its try block ended with `try`.
DrawsAfter(try, picks) == IF try.threw THEN picks ELSE {0}

\* Line 25: !word || word.length < 1
IsEmptyWord(word) == Len(word) < 1


\* Mutant of Begin: the empty word is not rejected before the try block.
BeginNoValidation(word, d, key, pick) ==
    IF ~key
    THEN [ task |-> AfterTry(word, d, TryBlock(word, NotConfigured), pick),
           http |-> NoHttp, fetches |-> 0 ]
    ELSE [ task |-> [ pc |-> "fetch", result |-> NoResult, origin |-> "none",
                      attempt |-> NoAttempt ],
           http |-> [prompt |-> createPrompt(word, d), status |-> 0], fetches |-> 1 ]

\* Mutant of Begin: the credential is checked after the request was sent.
BeginFetchFirst(word, d, key, pick) ==
    IF IsEmptyWord(word)
    THEN [ task |-> Resolved(ValidationResult(word, d, pick),
                             "generateFallbackSentence", NoAttempt),
           http |-> NoHttp, fetches |-> 0 ]
    ELSE IF ~key
    THEN [ task |-> AfterTry(word, d, TryBlock(word, NotConfigured), pick),
           http |-> [prompt |-> createPrompt(word, d), status |-> 0], fetches |-> 1 ]
    ELSE [ task |-> [ pc |-> "fetch", result |-> NoResult, origin |-> "none",
                      attempt |-> NoAttempt ],
           http |-> [prompt |-> createPrompt(word, d), status |-> 0], fetches |-> 1 ]

\* generateSentenceForWord up to its first suspension: the result at once
\* (empty word, no credential), or the request sent by fetch (line 156).
Begin(word, d, key, pick) ==
    IF IsEmptyWord(word)
    THEN [ task |-> Resolved(ValidationResult(word, d, pick),
                             "generateFallbackSentence", NoAttempt),
           http |-> NoHttp, fetches |-> 0 ]
    ELSE IF ~key
    THEN [ task |-> AfterTry(word, d, TryBlock(word, NotConfigured), pick),
           http |-> NoHttp, fetches |-> 0 ]
    ELSE [ task |-> [ pc |-> "fetch", result |-> NoResult, origin |-> "none",
                      attempt |-> NoAttempt ],
           http |-> [prompt |-> createPrompt(word, d), status |-> 0], fetches |-> 1 ]

----------------------------------------------------------------------------
(* The steps of one call of generateSentenceForWord: task i of the request. *)

Tasks == 1..Len(words)

\* Task i takes the state `t` (pc, result, origin, attempt).
Settle(i, t) ==
    /\ pc' = [pc EXCEPT ![i] = t.pc]
    /\ results' = [results EXCEPT ![i] = t.result]
    /\ origin' = [origin EXCEPT ![i] = t.origin]
    /\ attempt' = [attempt EXCEPT ![i] = t.attempt]
    /\ overtaken' = (overtaken \/ (t.pc = "done" /\ \E j \in 1..(i - 1) : pc[j] # "done"))

\* await fetch(...) settles (lines 156-160): a response arrives, or the
\* promise rejects and the catch of lines 182-187 runs.
FetchSettles(i, statuses, rejections, picks) ==
    /\ pc[i] = "fetch"
    /\ \/ \E st \in statuses :
            /\ http' = [http EXCEPT ![i].status = st]
            /\ pc' = [pc EXCEPT ![i] = "json"]
            /\ UNCHANGED <<results, origin, attempt, overtaken>>
       \/ \E r \in rejections :
            LET try == TryBlock(words[i], ApiCatch(r))
            IN  /\ \E pick \in DrawsAfter(try, picks) :
                     Settle(i, AfterTry(words[i], DefaultDifficulty(difficulty), try, pick))
                /\ UNCHANGED http
    /\ UNCHANGED <<apiKey, words, difficulty, fetchCount, batch, call, ret>>

\* Lines 162-187 for a response of the given status: what callDeepSeekAPI
\* settles with, for each body the response may carry.
ApiOutcomes(status, bodies, errorBodies) ==
    IF IsOk(status)
    THEN { LET read == ReadBody(body)
           IN  IF read.threw THEN ApiCatch(read) ELSE read : body \in bodies }
    ELSE { ApiCatch(StatusFailure(status, errorData)) : errorData \in errorBodies }

\* await response.json() settles (line 163 or line 176) and the call runs to
\* its end.
BodyRead(i, bodies, errorBodies, picks) ==
    /\ pc[i] = "json"
    /\ \E api \in ApiOutcomes(http[i].status, bodies, errorBodies) :
         LET try == TryBlock(words[i], api)
         IN  \E pick \in DrawsAfter(try, picks) :
                Settle(i, AfterTry(words[i], DefaultDifficulty(difficulty), try, pick))
    /\ UNCHANGED <<apiKey, words, difficulty, http, fetchCount, batch, call, ret>>

----------------------------------------------------------------------------
(* Spec: one call generateSentenceForWord(word, difficulty). *)

\* The words of the requests: plain words and words with characters that are
\* special in a RegExp.
Words ==
    { <<"a">>, <<"z">>, <<".">>, <<"a", "+">>, <<"a", "*">>, <<"a", "?">>,
      <<"(">>, <<"[">> }

Difficulties == {Omitted, "easy", "medium", "hard", "expert"}

NoBatch == [state |-> "none", success |-> FALSE, results |-> <<>>]
NoCall == [fn |-> "none", response |-> <<>>, word |-> <<>>]
NoRet == [done |-> FALSE, out |-> Returned(<<>>)]

\* n tasks, none started.
Idle(n) ==
    /\ pc = [i \in 1..n |-> "ready"]
    /\ http = [i \in 1..n |-> NoHttp]
    /\ results = [i \in 1..n |-> NoResult]
    /\ origin = [i \in 1..n |-> "none"]
    /\ attempt = [i \in 1..n |-> NoAttempt]
    /\ fetchCount = [i \in 1..n |-> 0]
    /\ overtaken = FALSE

\* A direct call may pass the empty word and any difficulty string, or none.
Init ==
    /\ apiKey \in BOOLEAN
    /\ words \in {<<w>> : w \in Words \cup {<<>>}}
    /\ difficulty \in Difficulties
    /\ Idle(1)
    /\ batch = NoBatch
    /\ call = NoCall
    /\ ret = NoRet

\* The call, up to its first suspension.
Call ==
    /\ batch.state = "none"
    /\ call.fn = "none"
    /\ pc[1] = "ready"
    /\ \E pick \in TemplatePicks :
         LET b == Begin(words[1], DefaultDifficulty(difficulty), apiKey, pick)
         IN  /\ Settle(1, b.task)
             /\ http' = [http EXCEPT ![1] = b.http]
             /\ fetchCount' = [fetchCount EXCEPT ![1] = @ + b.fetches]
    /\ UNCHANGED <<apiKey, words, difficulty, batch, call, ret>>

Contents == BodiesOf(TextsOf(MaxContentPieces))

Response ==
    /\ batch.state = "none"
    /\ FetchSettles(1, Statuses, FetchRejections, TemplatePicks)

Completion ==
    /\ batch.state = "none"
    /\ BodyRead(1, Contents, ErrorBodies, TemplatePicks)

Next == Call \/ Response \/ Completion

Spec == Init /\ [][Next]_vars

----------------------------------------------------------------------------
(* BatchSpec: the wordFill.generateBatch mutation (part_000:269-279). *)

\* The environment of a batch: fewer outcomes per task than in Spec.
BatchWords == { <<"a">>, <<"(">> }
BatchDifficulties == {"medium", "hard"}
BatchStatuses == {200, 429}
BatchRejections == { Threw(TRUE, "fetch failed") }
BatchBodies == { Body("content", <<"b", " ", "a">>), Body("emptyChoices", <<>>) }
BatchPicks == {0, 7}

RECURSIVE SeqsOf(_, _)
SeqsOf(S, n) ==
    IF n = 0 THEN {<<>>}
    ELSE LET shorter == SeqsOf(S, n - 1)
         IN  shorter \cup {Append(q, x) : q \in {r \in shorter : Len(r) = n - 1}, x \in S}

\* The input passed the schema of lines 270-273: every word has a character
\* and the difficulty is one of the enumeration (or its default).
BatchInit ==
    /\ apiKey \in BOOLEAN
    /\ words \in SeqsOf(BatchWords, MaxBatch)
    /\ difficulty \in BatchDifficulties
    /\ Idle(Len(words))
    /\ batch = [state |-> "ready", success |-> FALSE, results |-> <<>>]
    /\ call = NoCall
    /\ ret = NoRet

\* Mutant of PromiseAll: only the results of the calls that succeeded are kept.
PromiseAllSucceeded(values) == SelectSeq(values, LAMBDA r : r.success)

\* Promise.all over tasks that all resolved: their values, by index.
PromiseAll(values) == [i \in 1..Len(values) |-> values[i]]

\* Line 275-277, up to the await: input.words.map(...) calls
\* generateSentenceForWord for every word, in order, each call running up to
\* its first suspension.
GenerateBatch ==
    /\ batch.state = "ready"
    /\ \E picks \in [Tasks -> BatchPicks] :
         LET b == [i \in Tasks |->
                     Begin(words[i], DefaultDifficulty(difficulty), apiKey, picks[i])]
         IN  /\ pc' = [i \in Tasks |-> b[i].task.pc]
             /\ results' = [i \in Tasks |-> b[i].task.result]
             /\ origin' = [i \in Tasks |-> b[i].task.origin]
             /\ attempt' = [i \in Tasks |-> b[i].task.attempt]
             /\ http' = [i \in Tasks |-> b[i].http]
             /\ fetchCount' = [i \in Tasks |-> fetchCount[i] + b[i].fetches]
    /\ batch' = [batch EXCEPT !.state = "pending"]
    /\ UNCHANGED <<apiKey, words, difficulty, overtaken, call, ret>>

BatchResponse ==
    /\ batch.state = "pending"
    /\ \E i \in Tasks : FetchSettles(i, BatchStatuses, BatchRejections, BatchPicks)

BatchCompletion ==
    /\ batch.state = "pending"
    /\ \E i \in Tasks : BodyRead(i, BatchBodies, ErrorBodies, BatchPicks)

\* BatchReturn with Promise.race in place of Promise.all: the await ends
\* with the first task that settles.
BatchReturnFirstSettled ==
    /\ batch.state = "pending"
    /\ \/ /\ \E i \in Tasks : pc[i] = "done"
          /\ batch' = [state |-> "returned", success |-> TRUE, results |-> PromiseAll(results)]
       \/ /\ \E i \in Tasks : pc[i] = "rejected"
          /\ batch' = [state |-> "threw", success |-> FALSE, results |-> <<>>]
    /\ UNCHANGED <<apiKey, words, difficulty, pc, http, results, origin, attempt,
                   overtaken, fetchCount, call, ret>>

\* Lines 275-278: the await of Promise.all ends once every task has
\* resolved (or as soon as one has rejected), and the mutation returns.
BatchReturn ==
    /\ batch.state = "pending"
    /\ \/ /\ \A i \in Tasks : pc[i] = "done"
          /\ batch' = [state |-> "returned", success |-> TRUE, results |-> PromiseAll(results)]
       \/ /\ \E i \in Tasks : pc[i] = "rejected"
          /\ batch' = [state |-> "threw", success |-> FALSE, results |-> <<>>]
    /\ UNCHANGED <<apiKey, words, difficulty, pc, http, results, origin, attempt,
                   overtaken, fetchCount, call, ret>>

BatchNext == GenerateBatch \/ BatchResponse \/ BatchCompletion \/ BatchReturn

BatchSpec == BatchInit /\ [][BatchNext]_vars

----------------------------------------------------------------------------
(* ServiceSpec: both entry points, a direct call or a batch. *)

ServiceInit == Init \/ BatchInit

ServiceNext == Next \/ BatchNext

ServiceSpec == ServiceInit /\ [][ServiceNext]_vars

----------------------------------------------------------------------------
(* NormSpec: extractSentence called on its own. *)

NormInit ==
    /\ apiKey = FALSE
    /\ words = <<>>
    /\ difficulty = Omitted
    /\ Idle(0)
    /\ batch = NoBatch
    /\ call \in { [fn |-> "extractSentence", response |-> t, word |-> w] :
                     t \in TextsOf(MaxPieces), w \in Words }
    /\ ret = NoRet

Normalize ==
    /\ call.fn = "extractSentence"
    /\ ~ret.done
    /\ ret' = [done |-> TRUE, out |-> extractSentence(call.response, call.word)]
    /\ UNCHANGED <<apiKey, words, difficulty, pc, http, results, origin, attempt,
                   overtaken, fetchCount, batch, call>>

NormNext == Normalize

NormSpec == NormInit /\ [][NormNext]_vars

----------------------------------------------------------------------------
(* What the claims speak of. *)

\* Occurrences of the blank marker in s, counted from the left without overlap.
RECURSIVE CountMarkers(_)
CountMarkers(s) ==
    IF Len(s) < Len(Marker) THEN 0
    ELSE IF SubSeq(s, 1, Len(Marker)) = Marker
         THEN 1 + CountMarkers(SubSeq(s, Len(Marker) + 1, Len(s)))
         ELSE CountMarkers(Tail(s))

IsTemplate(s) == \E k \in 1..Len(templates) : s = templates[k]

HasError(r) == "error" \in DOMAIN r /\ r.error # ""

\* The result of a call that fell back.
IsFallbackResult(r) ==
    /\ r.success = FALSE
    /\ r.fallback = TRUE
    /\ HasError(r)
    /\ IsTemplate(r.sentence)

\* C1: a call with a word that is not empty never ends in a rejected
\* promise, and when anything was thrown inside its try block (by the client
\* or by the normalizer) it resolves with success=false, fallback=true, an
\* error that is not empty and one of the fallback templates as sentence.
C1_FailureBecomesFallback ==
    \A i \in Tasks :
        ~IsEmptyWord(words[i]) =>
            /\ pc[i] # "rejected"
            /\ (pc[i] = "done" /\ attempt[i].threw) => IsFallbackResult(results[i])

\* C1 witness: the normalizer threw (the RegExp of the word "(" does not
\* compile) and the call resolved with a fallback result.
C1_Witness ==
    /\ pc[1] = "done"
    /\ words[1] = <<"(">>
    /\ attempt[1].threw
    /\ attempt[1].message = "Invalid regular expression: Unterminated group"
    /\ IsFallbackResult(results[1])

\* C2 (as claimed): for every word that is not empty the sentence of the
\* result has exactly one blank marker and ends in '.', '!' or '?'.
C2_ExactlyOneBlank ==
    \A i \in Tasks :
        (pc[i] = "done" /\ ~IsEmptyWord(words[i])) =>
            /\ CountMarkers(results[i].sentence) = 1
            /\ EndsWithPunctuation(results[i].sentence)

\* C3: a call with the empty word makes no request and is never suspended;
\* it resolves with a fallback result, with or without a credential.
C3_EmptyWordNoRequest ==
    \A i \in Tasks :
        IsEmptyWord(words[i]) =>
            /\ fetchCount[i] = 0
            /\ pc[i] \in {"ready", "done"}
            /\ pc[i] = "done" => (IsFallbackResult(results[i]) /\ ~attempt[i].ran)

\* C3 witness: the empty word, a configured credential, the call returned.
C3_Witness ==
    /\ words[1] = <<>>
    /\ apiKey
    /\ pc[1] = "done"
    /\ fetchCount[1] = 0
    /\ IsFallbackResult(results[1])

\* C4: in every result, fallback holds exactly when the sentence was returned
\* by generateFallbackSentence (something was thrown in the try block, or the
\* word was empty); success holds only when the sentence was returned by
\* extractSentence in a try block that threw nothing; success = ~fallback;
\* and there is an error exactly when success is false.
C4_FlagsAgree ==
    \A i \in Tasks :
        pc[i] = "done" =>
            LET r == results[i]
            IN  /\ r.fallback = (origin[i] = "generateFallbackSentence")
                /\ r.fallback = (attempt[i].threw \/ IsEmptyWord(words[i]))
                /\ r.success => (origin[i] = "extractSentence" /\ attempt[i].ran
                                   /\ ~attempt[i].threw)
                /\ r.success = ~r.fallback
                /\ ("error" \in DOMAIN r) = ~r.success
                /\ ~r.success => r.error # ""

\* C4 witness: a call that went through the generation path.
C4_Witness ==
    /\ pc[1] = "done"
    /\ results[1].success
    /\ ~results[1].fallback
    /\ origin[1] = "extractSentence"
    /\ "error" \notin DOMAIN results[1]

\* C8: a task makes at most one request: none without a credential or for
\* the empty word, and exactly one from the moment callDeepSeekAPI was
\* called with a credential, whether the request failed or not.
C8_AtMostOneRequest ==
    \A i \in Tasks :
        /\ fetchCount[i] <= 1
        /\ ~apiKey => fetchCount[i] = 0
        /\ (apiKey /\ ~IsEmptyWord(words[i]) /\ pc[i] # "ready") => fetchCount[i] = 1

\* C8 witness: the request was answered with status 500, the call fell back
\* and one request was made.
C8_Witness ==
    /\ pc[1] = "done"
    /\ http[1].status = 500
    /\ results[1].fallback
    /\ results[1].error = "DeepSeek API internal server error"
    /\ fetchCount[1] = 1

\* C5: every result carries the word of its call unchanged and the
\* difficulty asked for ('medium' when none was given), whichever path
\* produced it; the results of a returned batch all carry the batch's
\* difficulty.
C5_EchoesWordAndDifficulty ==
    /\ \A i \in Tasks :
          pc[i] = "done" =>
              /\ results[i].word = words[i]
              /\ results[i].difficulty =
                     (IF difficulty = Omitted THEN "medium" ELSE difficulty)
    /\ batch.state = "returned" =>
          \A i \in 1..Len(batch.results) : batch.results[i].difficulty = difficulty

\* C5 witness: a returned batch of difficulty 'hard' holding a result of the
\* generation path and a fallback result.
C5_Witness ==
    /\ batch.state = "returned"
    /\ difficulty = "hard"
    /\ \E i, j \in 1..Len(batch.results) :
          /\ batch.results[i].success
          /\ batch.results[j].fallback
          /\ batch.results[j].difficulty = "hard"

\* C6: generateBatch never throws; it returns success=true and as many
\* results as words, results[i] being the result of the call made for
\* words[i] and carrying that word, in whatever order the calls completed
\* (for no words: no results).
C6_BatchIndexAligned ==
    /\ batch.state # "threw"
    /\ batch.state = "returned" =>
          /\ batch.success = TRUE
          /\ Len(batch.results) = Len(words)
          /\ \A i \in Tasks :
                /\ batch.results[i].word = words[i]
                /\ batch.results[i] = results[i]

\* C6 witness: a returned batch of three words, the first two the same word
\* with different outcomes, in which a task settled before an earlier one.
C6_Witness ==
    /\ batch.state = "returned"
    /\ Len(words) = 3
    /\ words[1] = words[2]
    /\ batch.results[1].success # batch.results[2].success
    /\ overtaken

\* The invariant of C7: the outcome of task i is that of its own try block,
\* the batch never throws and its own success flag is true.
C7_OwnOutcome ==
    /\ \A i \in Tasks :
          pc[i] = "done" =>
              /\ results[i].success = ~attempt[i].threw
              /\ results[i].fallback = attempt[i].threw
              /\ attempt[i].threw => results[i].error = attempt[i].message
    /\ batch.state # "threw"
    /\ batch.state = "returned" => batch.success = TRUE

\* The step property of C7: no step changes the result of a task that has
\* settled.
C7_SettledStays ==
    \A i \in Tasks :
        pc[i] = "done" => (pc'[i] = "done" /\ results'[i] = results[i])

\* C7: the tasks of a batch are isolated: each result follows from the
\* task's own upstream outcome, no later failure of another task changes it,
\* the batch never throws, and it returns success=true whatever its items.
C7_TasksIsolated == []C7_OwnOutcome /\ [][C7_SettledStays]_vars

\* C7 witness: a returned batch with success=true holding a failed item
\* before a succeeded one.
C7_Witness ==
    /\ batch.state = "returned"
    /\ batch.success
    /\ \E i, j \in Tasks :
          /\ i < j
          /\ ~batch.results[i].success
          /\ batch.results[j].success

\* The text extractSentence looks for the word in (lines 191-197).
Stripped(raw) == StripQuotes(Trim(raw))

\* The word w, taken literally, stands at position p of t as a whole word,
\* letter case ignored.
LiteralWordAt(t, w, p) ==
    /\ p + Len(w) - 1 <= Len(t)
    /\ \A k \in 1..Len(w) : ToLowerChar(t[p + k - 1]) = ToLowerChar(w[k])
    /\ WordBoundaryAt(t, p)
    /\ WordBoundaryAt(t, p + Len(w))

LiteralPositions(t, w) == {p \in 1..Len(t) : LiteralWordAt(t, w, p)}

\* C9 (as claimed): extractSentence returns a sentence for every raw text and
\* every word that is not empty, whatever characters the word holds.
C9_NormalizeNeverFails ==
    (call.fn = "extractSentence" /\ ret.done) => ~ret.out.threw

\* C10 (as claimed): when the text has no blank marker and holds the word,
\* taken literally, as a whole word, the sentence returned is the text with
\* the first such occurrence replaced by the marker, everything else in
\* place, and a '.' appended unless it ends in '.', '!' or '?'.
C10_ReplacesFirstLiteralMatch ==
    (call.fn = "extractSentence" /\ ret.done) =>
        LET t == Stripped(call.response)
            at == LiteralPositions(t, call.word)
        IN  (~Includes(t, Marker) /\ at # {}) =>
                LET p == CHOOSE q \in at : \A r \in at : q <= r
                    replaced == SubSeq(t, 1, p - 1) \o Marker
                                    \o SubSeq(t, p + Len(call.word), Len(t))
                    ended == IF EndsWithPunctuation(replaced) THEN replaced
                             ELSE replaced \o <<".">>
                IN  /\ ~ret.out.threw
                    /\ ret.out.value = Trim(CollapseWhitespace(ended))

----------------------------------------------------------------------------
(* ClientSpec: callDeepSeekAPI called on its own. The call record keeps what
   the network did: the status of the response, the value fetch() rejected
   with, the body that was read. *)

NoBody == Body("none", <<>>)
NoRejection == Threw(FALSE, "")

ClientInit ==
    /\ apiKey \in BOOLEAN
    /\ words = <<>>
    /\ difficulty = Omitted
    /\ Idle(0)
    /\ batch = NoBatch
    /\ call = [fn |-> "callDeepSeekAPI", at |-> "start", status |-> 0,
               rejected |-> FALSE, rejection |-> NoRejection,
               body |-> NoBody, errorData |-> ""]
    /\ ret = NoRet

\* Lines 162-187 for one response: the status and the body decide what the
\* call settles with. errorData is the text JSON.stringify gives for the
\* body of a response that is not ok (line 163, line 173).
ApiOutcome(status, body, errorData) ==
    IF IsOk(status)
    THEN LET read == ReadBody(body)
         IN  IF read.threw THEN ApiCatch(read) ELSE read
    ELSE ApiCatch(StatusFailure(status, errorData))

\* Lines 126-160: the key is checked, then the request is sent.
ClientCall ==
    /\ call.fn = "callDeepSeekAPI"
    /\ call.at = "start"
    /\ IF apiKey
       THEN call' = [call EXCEPT !.at = "fetch"] /\ UNCHANGED ret
       ELSE call' = [call EXCEPT !.at = "end"] /\ ret' = [done |-> TRUE, out |-> NotConfigured]
    /\ UNCHANGED <<apiKey, words, difficulty, pc, http, results, origin, attempt,
                   overtaken, fetchCount, batch>>

\* await fetch(...) settles (lines 155-160).
ClientFetchSettles ==
    /\ call.fn = "callDeepSeekAPI"
    /\ call.at = "fetch"
    /\ \/ \E st \in Statuses :
            /\ call' = [call EXCEPT !.at = "json", !.status = st]
            /\ UNCHANGED ret
       \/ \E r \in FetchRejections :
            /\ call' = [call EXCEPT !.at = "end", !.rejected = TRUE, !.rejection = r]
            /\ ret' = [done |-> TRUE, out |-> ApiCatch(r)]
    /\ UNCHANGED <<apiKey, words, difficulty, pc, http, results, origin, attempt,
                   overtaken, fetchCount, batch>>

\* await response.json() settles (line 163 or line 176) and the call ends.
ClientBodyRead ==
    /\ call.fn = "callDeepSeekAPI"
    /\ call.at = "json"
    /\ \/ /\ IsOk(call.status)
          /\ \E body \in Contents :
                /\ call' = [call EXCEPT !.at = "end", !.body = body]
                /\ ret' = [done |-> TRUE, out |-> ApiOutcome(call.status, body, "")]
       \/ /\ ~IsOk(call.status)
          /\ \E errorData \in ErrorBodies :
                /\ call' = [call EXCEPT !.at = "end", !.errorData = errorData]
                /\ ret' = [done |-> TRUE,
                           out |-> ApiOutcome(call.status, NoBody, errorData)]
    /\ UNCHANGED <<apiKey, words, difficulty, pc, http, results, origin, attempt,
                   overtaken, fetchCount, batch>>

ClientNext == ClientCall \/ ClientFetchSettles \/ ClientBodyRead

ClientSpec == ClientInit /\ [][ClientNext]_vars

----------------------------------------------------------------------------

(* RouterSpec: requests to the procedures wordFill.generateSentence and
   wordFill.generateBatch. The input is parsed against the schema of the
   procedure first; the mutation runs only on input that passed. *)

MaxRpcBatch == 2

RpcProcedures == {"wordFill.generateSentence", "wordFill.generateBatch"}
RpcBatchDifficulties == {Omitted, "hard", "expert"}

RpcRequest(fn) == [fn |-> fn, response |-> <<>>, word |-> <<>>]

\* A client may send any strings, the empty word and an unknown difficulty
\* included, and may leave the difficulty out.
RouterInit ==
    /\ apiKey \in BOOLEAN
    /\ \/ /\ call = RpcRequest("wordFill.generateSentence")
          /\ words \in {<<w>> : w \in Words \cup {<<>>}}
          /\ difficulty \in Difficulties
          /\ batch = NoBatch
       \/ /\ call = RpcRequest("wordFill.generateBatch")
          /\ words \in SeqsOf(BatchWords \cup {<<>>}, MaxRpcBatch)
          /\ difficulty \in RpcBatchDifficulties
          /\ batch = [state |-> "request", success |-> FALSE, results |-> <<>>]
    /\ Idle(Len(words))
    /\ ret = NoRet

\* ValidInput with z.string() in place of z.string().min(1).
ValidInputAnyWord(ws, d) ==
    d \in {Omitted, "easy", "medium", "hard"}

\* Lines 261-264 and 270-273: every word is a string of at least one
\* character, the difficulty is one of the enumeration or absent.
ValidInput(ws, d) ==
    /\ \A i \in 1..Len(ws) : Len(ws[i]) >= 1
    /\ d \in {Omitted, "easy", "medium", "hard"}

\* .default('medium') of lines 263 and 272.
ParsedDifficulty(d) == IF d = Omitted THEN "medium" ELSE d

\* What the procedure throws for input that fails its schema.
BadRequest == Threw(TRUE, "BAD_REQUEST")

\* The input of a request is parsed: the parsed input is handed to the
\* mutation, or the request fails and the mutation is not run.
ParseInput(handed) ==
    /\ ~ret.done
    /\ IF ValidInput(words, difficulty)
       THEN /\ difficulty' = ParsedDifficulty(difficulty)
            /\ call' = NoCall
            /\ batch' = handed
            /\ UNCHANGED ret
       ELSE /\ ret' = [done |-> TRUE, out |-> BadRequest]
            /\ UNCHANGED <<difficulty, call, batch>>
    /\ UNCHANGED <<apiKey, words, pc, http, results, origin, attempt, overtaken,
                   fetchCount>>

\* Lines 260-264.
RpcGenerateSentence ==
    /\ call.fn = "wordFill.generateSentence"
    /\ ParseInput(NoBatch)

\* Lines 269-273.
RpcGenerateBatch ==
    /\ call.fn = "wordFill.generateBatch"
    /\ ParseInput([batch EXCEPT !.state = "ready"])

RouterNext == RpcGenerateSentence \/ RpcGenerateBatch \/ ServiceNext

RouterSpec == RouterInit /\ [][RouterNext]_vars

----------------------------------------------------------------------------

(* LiveSpec: one generateBatch request whose upstream calls all complete.
   The runtime runs the mutation and resumes it when the promise of
   Promise.all settles; that every pending fetch() and every pending
   response.json() settles is the assumption on the upstream API. *)

MaxLiveBatch == 2

LiveWords == { <<"a">> }
LiveStatuses == {200, 429}
LiveRejections == { Threw(TRUE, "fetch failed") }
\* What the body of a 2xx response is: no choice at all, or a sentence.
LiveEmptyBodies == { Body("emptyChoices", <<>>) }
LiveContentBodies == { Body("content", <<"b", " ", "a">>) }

LiveInit ==
    /\ apiKey \in BOOLEAN
    /\ words \in SeqsOf(LiveWords, MaxLiveBatch)
    /\ difficulty = "hard"
    /\ Idle(Len(words))
    /\ batch = [state |-> "ready", success |-> FALSE, results |-> <<>>]
    /\ call = NoCall
    /\ ret = NoRet

\* The fetch() of task i settles.
TaskResponse(i) ==
    /\ batch.state = "pending"
    /\ i \in Tasks
    /\ FetchSettles(i, LiveStatuses, LiveRejections, BatchPicks)

\* The response.json() of task i settles.
TaskCompletion(i) ==
    /\ batch.state = "pending"
    /\ i \in Tasks
    /\ \/ BodyRead(i, LiveEmptyBodies, ErrorBodies, BatchPicks)
       \/ BodyRead(i, LiveContentBodies, ErrorBodies, BatchPicks)

LiveResponse == \E i \in 1..MaxLiveBatch : TaskResponse(i)

LiveCompletion == \E i \in 1..MaxLiveBatch : TaskCompletion(i)

LiveNext == GenerateBatch \/ LiveResponse \/ LiveCompletion \/ BatchReturn

UpstreamCompletes ==
    \A i \in 1..MaxLiveBatch :
        WF_vars(TaskResponse(i)) /\ WF_vars(TaskCompletion(i))

LiveSpec ==
    /\ LiveInit
    /\ [][LiveNext]_vars
    /\ WF_vars(GenerateBatch)
    /\ WF_vars(BatchReturn)
    /\ UpstreamCompletes

----------------------------------------------------------------------------
(* IdemSpec: extractSentence called on a text, then on the sentence it
   returned, with the same word. The texts also hold a line break. *)

RawPieces == Pieces \cup { <<"\n">> }

RECURSIVE TextsFrom(_, _)
TextsFrom(pieces, n) ==
    IF n = 0 THEN {<<>>}
    ELSE LET shorter == TextsFrom(pieces, n - 1)
         IN  shorter \cup {t \o q : t \in shorter, q \in pieces}

IdemInit ==
    /\ apiKey = FALSE
    /\ words = <<>>
    /\ difficulty = Omitted
    /\ Idle(0)
    /\ batch = NoBatch
    /\ call \in { [fn |-> "extractSentence", response |-> t, word |-> w] :
                     t \in TextsFrom(RawPieces, MaxPieces), w \in Words }
    /\ ret = NoRet

\* extractSentence(extractSentence(response, word), word): the second call.
NormalizeAgain ==
    /\ call.fn = "extractSentence"
    /\ ret.done
    /\ ~ret.out.threw
    /\ "again" \notin DOMAIN ret
    /\ ret' = [done |-> TRUE, out |-> ret.out,
               again |-> extractSentence(ret.out.value, call.word)]
    /\ UNCHANGED <<apiKey, words, difficulty, pc, http, results, origin, attempt,
                   overtaken, fetchCount, batch, call>>

IdemNext == Normalize \/ NormalizeAgain

IdemSpec == IdemInit /\ [][IdemNext]_vars

----------------------------------------------------------------------------

(* FallbackSpec: generateFallbackSentence called on its own, for any string
   as the word, within a request of any difficulty. *)

FallbackInit ==
    /\ apiKey = FALSE
    /\ words = <<>>
    /\ difficulty \in Difficulties
    /\ Idle(0)
    /\ batch = NoBatch
    /\ call \in { [fn |-> "generateFallbackSentence", response |-> <<>>, word |-> w] :
                     w \in Words \cup TextsOf(MaxPieces) }
    /\ ret = NoRet

Fallback ==
    /\ call.fn = "generateFallbackSentence"
    /\ ~ret.done
    /\ \E pick \in TemplatePicks :
         ret' = [done |-> TRUE, out |-> Returned(generateFallbackSentence(call.word, pick))]
    /\ UNCHANGED <<apiKey, words, difficulty, pc, http, results, origin, attempt,
                   overtaken, fetchCount, batch, call>>

FallbackNext == Fallback

FallbackSpec == FallbackInit /\ [][FallbackNext]_vars

----------------------------------------------------------------------------

\* C11 (as claimed): when the text has neither a blank marker nor the word,
\* taken literally, as a whole word, the sentence returned has a marker and
\* ends in '.', '!' or '?': with more than 3 space-separated tokens it is the
\* text with the marker inserted as a token of its own at index
\* floor(tokenCount / 2), every token kept; with 3 tokens or fewer it is the
\* text with its last character replaced by the marker and a period.
C11_InsertsBlankWhenNoMatch ==
    (call.fn = "extractSentence" /\ ret.done) =>
        LET t == Stripped(call.response)
        IN  (~Includes(t, Marker) /\ LiteralPositions(t, call.word) = {}) =>
                LET tokens == SplitSpace(t)
                    n == Len(tokens)
                    inserted ==
                        IF n > 3
                        THEN JoinSpace(SubSeq(tokens, 1, n \div 2) \o <<Marker>>
                                           \o SubSeq(tokens, n \div 2 + 1, n))
                        ELSE SubSeq(t, 1, Len(t) - 1) \o <<" ">> \o Marker \o <<".">>
                    ended == IF EndsWithPunctuation(inserted) THEN inserted
                             ELSE inserted \o <<".">>
                IN  /\ ~ret.out.threw
                    /\ ret.out.value = Trim(CollapseWhitespace(ended))
                    /\ Includes(ret.out.value, Marker)
                    /\ EndsWithPunctuation(ret.out.value)

\* The reason callDeepSeekAPI failed with is one the code words itself.
ClassifiedMessages ==
    { "API Key invalid/expired", "API permission insufficient",
      "API call rate limit exceeded", "DeepSeek API internal server error",
      "API response has no valid content" }

GenericHttpFailures(status) ==
    { "HTTP " \o ToString(status) \o ": " \o errorData : errorData \in ErrorBodies }

\* The reason for a response that is not ok, when the statuses in
\* serverErrors count as "a server error".
ReasonByStatus(serverErrors) ==
    (call.fn = "callDeepSeekAPI" /\ ret.done /\ call.status # 0) =>
        IF IsOk(call.status)
        THEN call.body.kind \in {"noChoices", "emptyChoices"} =>
                /\ ret.out.threw
                /\ ret.out.message = "API response has no valid content"
        ELSE /\ ret.out.threw
             /\ CASE call.status = 401 -> ret.out.message = "API Key invalid/expired"
                  [] call.status = 403 -> ret.out.message = "API permission insufficient"
                  [] call.status = 429 -> ret.out.message = "API call rate limit exceeded"
                  [] call.status \in serverErrors ->
                        ret.out.message = "DeepSeek API internal server error"
                  [] OTHER ->
                        /\ ret.out.message \in GenericHttpFailures(call.status)
                        /\ ret.out.message \notin ClassifiedMessages

\* C12 (as claimed): a response that is not 2xx fails with the reason of its
\* status: 401 invalid or expired key, 403 insufficient permission, 429 rate
\* limited, a server error (any 5xx status) upstream failure, every other
\* status a generic HTTP failure carrying the status; a 2xx response with
\* missing or empty choices fails with "no valid content".
C12_ServerErrorIsUpstreamFailure == ReasonByStatus(500..599)

\* C12 (amended): as above, but only status 500 gives the upstream failure;
\* every other 5xx status gives the generic HTTP failure carrying the status.
C12_FailureByStatus == ReasonByStatus({500})

C12_Witness ==
    /\ call.fn = "callDeepSeekAPI"
    /\ ret.done
    /\ call.status = 503
    /\ ret.out.threw
    /\ ret.out.message = "HTTP 503: {}"

\* The call failed below the HTTP status: fetch() rejected, or the body of
\* an ok response was not JSON.
TransportFailure ==
    \/ call.rejected
    \/ (IsOk(call.status) /\ call.body.kind = "malformed")

\* C13 (as claimed): a transport failure (fetch rejects, or the body is not
\* valid JSON) leaves callDeepSeekAPI failing with the generic 'API call
\* failed'; only the failures the client classified itself keep their message.
C13_TransportFailureIsGeneric ==
    (call.fn = "callDeepSeekAPI" /\ ret.done /\ apiKey) =>
        /\ TransportFailure =>
              (ret.out.threw /\ ret.out.message = "API call failed")
        /\ (ret.out.threw /\ ~TransportFailure) =>
              ret.out.message # "API call failed"

TemplatePool == { templates[k] : k \in 1..Len(templates) }

TemplatesWellFormed ==
    /\ Cardinality(TemplatePool) >= 8
    /\ \A t \in TemplatePool : CountMarkers(t) = 1 /\ EndsWithPunctuation(t)

\* C14: generateFallbackSentence returns, for every word (the empty one
\* too) and whatever the difficulty of the request, a member of a fixed pool
\* of at least 8 templates; every template has exactly one blank marker and
\* ends in '.', '!' or '?'; the sentences it can return are the same pool
\* for every word.
C14_FallbackFromPool ==
    /\ TemplatesWellFormed
    /\ call.fn = "generateFallbackSentence" =>
          /\ { generateFallbackSentence(call.word, pick) : pick \in TemplatePicks }
                = TemplatePool
          /\ ret.done =>
                /\ ~ret.out.threw
                /\ ret.out.value \in TemplatePool
                /\ CountMarkers(ret.out.value) = 1
                /\ EndsWithPunctuation(ret.out.value)

C14_Witness ==
    /\ call.fn = "generateFallbackSentence"
    /\ call.word = <<>>
    /\ difficulty = "expert"
    /\ ret.done
    /\ ret.out.value = templates[Len(templates)]

HasEmptyWord == \E i \in 1..Len(words) : words[i] = <<>>

\* C15: a request to generateSentence with the empty word, or to
\* generateBatch with an empty word anywhere in the list, fails with the
\* validation error of the input schema: no task of the request is ever
\* started, no request is sent to the API, no result is produced, and what
\* the procedure ends with is the thrown error.
C15_EmptyWordRejected ==
    HasEmptyWord =>
        /\ \A i \in Tasks :
              pc[i] = "ready" /\ fetchCount[i] = 0 /\ results[i] = NoResult
        /\ call.fn \in RpcProcedures
        /\ batch.state \in {"none", "request"}
        /\ ret.done => (ret.out.threw /\ ret.out = BadRequest)

C15_Witness ==
    /\ call.fn = "wordFill.generateSentence"
    /\ words = << <<>> >>
    /\ difficulty = "medium"
    /\ apiKey
    /\ ret.done
    /\ ret.out.threw

AllTasksStarted == \A i \in Tasks : pc[i] # "ready"
AllTasksSettled == \A i \in Tasks : pc[i] = "done" /\ results[i] # NoResult
SomeCallPending == \E i \in Tasks : pc[i] \in {"fetch", "json"}
BatchEnded == batch.state \in {"returned", "threw"}

\* C16: once generateBatch waits, every task of the batch has been started;
\* it has returned only when every task has settled, so while one upstream
\* call is still pending the batch has not returned; and when every
\* upstream call completes, generateBatch returns in the end.
C16_BatchWaitsForAll ==
    /\ [](batch.state = "pending" => AllTasksStarted)
    /\ [](BatchEnded => (batch.state = "returned" /\ AllTasksSettled))
    /\ [](SomeCallPending => ~BatchEnded)
    /\ <>(batch.state = "returned")

C16_Witness ==
    /\ batch.state = "returned"
    /\ Len(words) = MaxLiveBatch
    /\ overtaken
    /\ \A i \in Tasks : fetchCount[i] = 1

\* No whitespace at either end, and no two whitespace characters in a row.
IsCanonical(s) ==
    /\ s = <<>> \/ (~IsSpace(s[1]) /\ ~IsSpace(s[Len(s)]))
    /\ \A i \in 1..(Len(s) - 1) : ~(IsSpace(s[i]) /\ IsSpace(s[i + 1]))
    /\ \A i \in 1..Len(s) : IsSpace(s[i]) => s[i] = " "

\* C17: whenever extractSentence returns, the sentence has no whitespace at
\* its ends and no run of two or more whitespace characters, and
\* extractSentence applied to that sentence with the same word returns the
\* same sentence.
C17_NormalizeIdempotent ==
    (call.fn = "extractSentence" /\ ret.done /\ ~ret.out.threw) =>
        /\ IsCanonical(ret.out.value)
        /\ "again" \in DOMAIN ret =>
              (~ret.again.threw /\ ret.again.value = ret.out.value)

C17_Witness ==
    /\ call.fn = "extractSentence"
    /\ ret.done
    /\ "again" \in DOMAIN ret
    /\ call.response = <<" ", "\n", "b", " ", "b">>
    /\ call.word = <<"z">>
    /\ ret.again.value = ret.out.value

====
